---- MODULE Spec2Model ----
(***************************************************************************)
(* Bakery inventory (src/bakery.py): the unit catalog, the conversion      *)
(* engine (convert_unit, auto_convert) and the inventory operations        *)
(* (add_ingredient, consume_ingredient, search_ingredient,                 *)
(* view_inventory) driven by main_menu.                                    *)
(*                                                                         *)
(* Python floats are modelled as records [k, n, d]:                        *)
(*   k = "fin"  : the exact rational n/d, d > 0, gcd(|n|, d) = 1           *)
(*   k = "inf" / "ninf" / "nan" : the IEEE-754 specials (n = 0, d = 1)     *)
(* float("inf") is accepted by float() and is > 0, so it passes            *)
(* get_validated_positive_float; the specials follow IEEE-754 rules.       *)
(* Binary rounding of finite values is not modelled: finite arithmetic is  *)
(* exact.                                                                  *)
(***************************************************************************)
EXTENDS Integers, Sequences, FiniteSets, TLC

VARIABLES inventory, last, steps, fin, fout, ledger

vars == <<inventory, last, steps, fin, fout, ledger>>

----------------------------------------------------------------------------
(* Float arithmetic *)

Abs(x) == IF x < 0 THEN -x ELSE x

RECURSIVE GCD(_, _)
GCD(a, b) == IF b = 0 THEN a ELSE GCD(b, a % b)

\* the rational n/d (d > 0) in lowest terms
Rat(n, d) ==
    LET g == GCD(Abs(n), d)
    IN  [k |-> "fin", n |-> n \div g, d |-> d \div g]

NaN == [k |-> "nan", n |-> 0, d |-> 1]
Inf == [k |-> "inf", n |-> 0, d |-> 1]
NInf == [k |-> "ninf", n |-> 0, d |-> 1]
Zero == Rat(0, 1)

Sign(a) ==
    CASE a.k = "inf" -> 1
      [] a.k = "ninf" -> -1
      [] a.k = "fin" -> (IF a.n > 0 THEN 1 ELSE IF a.n < 0 THEN -1 ELSE 0)
      [] OTHER -> 0

FNeg(a) ==
    CASE a.k = "inf" -> NInf
      [] a.k = "ninf" -> Inf
      [] a.k = "fin" -> Rat(-a.n, a.d)
      [] OTHER -> NaN

\* a * b
FMul(a, b) ==
    IF a.k = "nan" \/ b.k = "nan" THEN NaN
    ELSE IF a.k = "fin" /\ b.k = "fin"
    THEN LET g1 == GCD(Abs(a.n), b.d)
             g2 == GCD(Abs(b.n), a.d)
         IN  Rat((a.n \div g1) * (b.n \div g2), (a.d \div g2) * (b.d \div g1))
    ELSE IF Sign(a) * Sign(b) = 0 THEN NaN
    ELSE IF Sign(a) * Sign(b) > 0 THEN Inf ELSE NInf

\* a / b, b a non-zero float (the catalog's factors are positive)
FDiv(a, b) ==
    IF a.k = "nan" \/ b.k = "nan" THEN NaN
    ELSE IF b.k = "fin"
    THEN FMul(a, IF b.n > 0 THEN Rat(b.d, b.n) ELSE Rat(-b.d, -b.n))
    ELSE IF a.k = "fin" THEN Zero ELSE NaN

\* a + b
FAdd(a, b) ==
    IF a.k = "nan" \/ b.k = "nan" THEN NaN
    ELSE IF a.k = "fin" /\ b.k = "fin"
    THEN LET g == GCD(a.d, b.d)
         IN  Rat(a.n * (b.d \div g) + b.n * (a.d \div g), (a.d \div g) * b.d)
    ELSE IF a.k = "fin" THEN b
    ELSE IF b.k = "fin" THEN a
    ELSE IF a.k = b.k THEN a ELSE NaN

\* a - b
FSub(a, b) == FAdd(a, FNeg(b))

\* position on the extended real line: ninf < every finite value < inf
Rank(a) == IF a.k = "inf" THEN 1 ELSE IF a.k = "ninf" THEN -1 ELSE 0

\* n1/d1 > n2/d2 for non-negative rationals, by their continued fractions
\* (no product is formed)
RECURSIVE RatGt(_, _, _, _)
RatGt(n1, d1, n2, d2) ==
    IF n1 \div d1 # n2 \div d2 THEN n1 \div d1 > n2 \div d2
    ELSE IF n1 % d1 = 0 THEN FALSE
    ELSE IF n2 % d2 = 0 THEN TRUE
    ELSE RatGt(d2, n2 % d2, d1, n1 % d1)

\* a > b; every comparison with nan is False
FGt(a, b) ==
    IF a.k = "nan" \/ b.k = "nan" THEN FALSE
    ELSE IF a.k = "fin" /\ b.k = "fin"
    THEN IF a.n >= 0 /\ b.n >= 0 THEN RatGt(a.n, a.d, b.n, b.d)
         ELSE IF a.n < 0 /\ b.n < 0 THEN RatGt(-b.n, b.d, -a.n, a.d)
         ELSE a.n >= 0
    ELSE Rank(a) > Rank(b)

\* a == b
FEq(a, b) == a.k # "nan" /\ b.k # "nan" /\ a = b

\* a >= b
FGe(a, b) == FGt(a, b) \/ FEq(a, b)

\* round(a, 2): nearest hundredth, ties to even; inf and nan are returned as is
\* (the two decimals are produced digit by digit)
Round2(a) ==
    IF a.k # "fin" THEN a
    ELSE LET m == Abs(a.n)
             ip == m \div a.d
             r1 == (m % a.d) * 10
             r2 == (r1 % a.d) * 10
             h == (r1 \div a.d) * 10 + r2 \div a.d
             twice == 2 * (r2 % a.d)
             up == twice > a.d \/ (twice = a.d /\ h % 2 = 1)
             hundredths == ip * 100 + h + (IF up THEN 1 ELSE 0)
         IN  Rat((IF a.n < 0 THEN -1 ELSE 1) * hundredths, 100)

\* a decimal literal of the source: digits / 10^places
Dec(digits, scale) == Rat(digits, scale)

----------------------------------------------------------------------------
(* Unit catalog and conversion engine *)

CONVERSION_FACTORS ==
    [mass |-> [mg |-> Dec(1, 1000), g |-> Dec(1, 1), kg |-> Dec(1000, 1),
               oz |-> Dec(283495, 10000), lb |-> Dec(453592, 1000)],
     volume |-> [ml |-> Dec(1, 1), l |-> Dec(1000, 1),
                 tsp |-> Dec(492892, 100000), tbsp |-> Dec(147868, 10000)]]

\* None where a str is expected, and None where a float is expected
None == "None"
NoneFloat == [k |-> "none", n |-> 0, d |-> 1]

get_all_units ==
    UNION {DOMAIN CONVERSION_FACTORS[cat] : cat \in DOMAIN CONVERSION_FACTORS}

get_unit_type(unit) ==
    IF \E cat \in DOMAIN CONVERSION_FACTORS : unit \in DOMAIN CONVERSION_FACTORS[cat]
    THEN CHOOSE cat \in DOMAIN CONVERSION_FACTORS :
             unit \in DOMAIN CONVERSION_FACTORS[cat]
    ELSE None

\* the two factors swapped: divides by the source factor
convert_unit_Inverted(value, from_unit, to_unit) ==
    LET from_type == get_unit_type(from_unit)
        to_type == get_unit_type(to_unit)
    IN  IF from_type # to_type \/ from_type = None THEN NoneFloat
        ELSE FDiv(FMul(value, CONVERSION_FACTORS[to_type][to_unit]),
                  CONVERSION_FACTORS[from_type][from_unit])

\* the result rounded to 2 decimals, as auto_convert does
convert_unit_Rounded(value, from_unit, to_unit) ==
    LET from_type == get_unit_type(from_unit)
        to_type == get_unit_type(to_unit)
    IN  IF from_type # to_type \/ from_type = None THEN NoneFloat
        ELSE Round2(FDiv(FMul(value, CONVERSION_FACTORS[from_type][from_unit]),
                         CONVERSION_FACTORS[to_type][to_unit]))

\* convert_unit without the comparison of the two categories
convert_unit_NoCategoryCheck(value, from_unit, to_unit) ==
    LET from_type == get_unit_type(from_unit)
        to_type == get_unit_type(to_unit)
    IN  IF from_type = None \/ to_type = None THEN NoneFloat
        ELSE FDiv(FMul(value, CONVERSION_FACTORS[from_type][from_unit]),
                  CONVERSION_FACTORS[to_type][to_unit])

\* a float, or None when the units are incompatible or unknown
convert_unit(value, from_unit, to_unit) ==
    LET from_type == get_unit_type(from_unit)
        to_type == get_unit_type(to_unit)
    IN  IF from_type # to_type \/ from_type = None THEN NoneFloat
        ELSE LET base_value == FMul(value, CONVERSION_FACTORS[from_type][from_unit])
             IN  FDiv(base_value, CONVERSION_FACTORS[to_type][to_unit])

\* the units of a category, largest factor first
RECURSIVE SortedDesc(_, _)
SortedDesc(cat, units) ==
    IF units = {} THEN <<>>
    ELSE LET top == CHOOSE u \in units : \A w \in units :
                        FGe(CONVERSION_FACTORS[cat][u], CONVERSION_FACTORS[cat][w])
         IN  <<top>> \o SortedDesc(cat, units \ {top})

\* the scan order without reversed(): smallest factor first
sorted_units_Ascending(unit_type) ==
    LET su == SortedDesc(unit_type, DOMAIN CONVERSION_FACTORS[unit_type])
    IN  [i \in 1..Len(su) |-> su[Len(su) + 1 - i]]

reversed_sorted_units(unit_type) ==
    SortedDesc(unit_type, DOMAIN CONVERSION_FACTORS[unit_type])

\* auto_convert whose fallback returns rounds the quantity as the scaled one is
auto_convert_RoundsFallback(quantity, unit) ==
    LET unit_type == get_unit_type(unit)
    IN  IF unit_type = None THEN [qty |-> Round2(quantity), unit |-> unit]
        ELSE LET su == reversed_sorted_units(unit_type)
                 fits == {i \in 1..Len(su) :
                             FGe(quantity, CONVERSION_FACTORS[unit_type][su[i]])}
             IN  IF fits = {} THEN [qty |-> Round2(quantity), unit |-> unit]
                 ELSE LET i == CHOOSE j \in fits : \A m \in fits : j <= m
                          factor == CONVERSION_FACTORS[unit_type][su[i]]
                      IN  [qty |-> Round2(FDiv(quantity, factor)), unit |-> su[i]]

auto_convert(quantity, unit) ==
    LET unit_type == get_unit_type(unit)
    IN  IF unit_type = None THEN [qty |-> quantity, unit |-> unit]
        ELSE LET su == reversed_sorted_units(unit_type)
                 fits == {i \in 1..Len(su) :
                             FGe(quantity, CONVERSION_FACTORS[unit_type][su[i]])}
             IN  IF fits = {} THEN [qty |-> quantity, unit |-> unit]
                 ELSE LET i == CHOOSE j \in fits : \A m \in fits : j <= m
                          factor == CONVERSION_FACTORS[unit_type][su[i]]
                      IN  [qty |-> Round2(FDiv(quantity, factor)), unit |-> su[i]]

----------------------------------------------------------------------------
(* Inputs of a session *)

\* menu choices handled in one session
MaxOps == 3

F(i) == Rat(i, 1)

\* what the user types at a name prompt
RawNames == {"flour", " Flour", "milk", "  "}
\* input().strip().lower() on the strings above
Normalize(s) ==
    CASE s = " Flour" -> "flour"
      [] s = "KG" -> "kg"
      [] s = "  " -> ""
      [] OTHER -> s

\* a line that float() rejects with ValueError
Bad == [k |-> "bad", n |-> 0, d |-> 1]

\* what the user types at the unit prompt and then, line after line, at the
\* quantity prompt
UnitQtyInputs ==
    {<<"g", <<F(800)>>>>, <<"g", <<F(500)>>>>, <<"g", <<F(300)>>>>,
     <<"KG", <<F(1)>>>>, <<"lb", <<F(2)>>>>, <<"ml", <<F(250)>>>>,
     <<"cup", <<F(1)>>>>, <<"g", <<Inf>>>>,
     <<"g", <<Zero, F(800)>>>>, <<"ml", <<F(-1), Bad, NaN, F(250)>>>>}

\* the prompt without the value > 0 test: the first line that parses
RECURSIVE get_validated_float_Unchecked(_)
get_validated_float_Unchecked(lines) ==
    IF Head(lines).k # "bad" THEN Head(lines)
    ELSE get_validated_float_Unchecked(Tail(lines))

\* the first line that parses to a value > 0 (the prompt repeats until then)
RECURSIVE get_validated_positive_float(_)
get_validated_positive_float(lines) ==
    IF Head(lines).k # "bad" /\ FGt(Head(lines), Zero) THEN Head(lines)
    ELSE get_validated_positive_float(Tail(lines))

----------------------------------------------------------------------------
(* Inventory: a dict in insertion order, as a sequence of entries *)

Names(inv) == {inv[i].name : i \in 1..Len(inv)}

\* name in inventory
Has(inv, name) == name \in Names(inv)

IndexOf(inv, name) == CHOOSE i \in 1..Len(inv) : inv[i].name = name

\* inventory[name]
Get(inv, name) == inv[IndexOf(inv, name)]

\* the key deleted and set again: an existing key moves to the end
DictSet_Reinsert(inv, name, qty, unit) ==
    LET e == [name |-> name, quantity |-> qty, unit |-> unit]
        keep == {i \in 1..Len(inv) : inv[i].name # name}
        rest == [i \in 1..Cardinality(keep) |->
                    inv[CHOOSE j \in keep :
                            Cardinality({k \in keep : k <= j}) = i]]
    IN  Append(rest, e)

\* the dict rebound to a new one holding only the key being set
DictSet_Replace(inv, name, qty, unit) ==
    <<[name |-> name, quantity |-> qty, unit |-> unit]>>

\* inventory[name] = {...}: an existing key keeps its position, a new key is appended
DictSet(inv, name, qty, unit) ==
    LET e == [name |-> name, quantity |-> qty, unit |-> unit]
    IN  IF Has(inv, name) THEN [inv EXCEPT ![IndexOf(inv, name)] = e]
        ELSE Append(inv, e)

\* inventory[name]['quantity'] = qty
SetQuantity(inv, name, qty) ==
    [inv EXCEPT ![IndexOf(inv, name)].quantity = qty]

\* no entry was read
NoEntry == [quantity |-> NoneFloat, unit |-> None]

\* what a handler read (its inputs, and the entry's current_quantity and
\* current_unit when it read them) and what it printed
Outcome(op, name, unit, qty, prev, result, out) ==
    [op |-> op, name |-> name, unit |-> unit, qty |-> qty, prev |-> prev,
     result |-> result, out |-> out]

Read(inv, name) ==
    [quantity |-> Get(inv, name).quantity, unit |-> Get(inv, name).unit]

\* the two lines printed for an entry: the stock and, when auto_convert picks
\* another unit, the approximation line
Display(e) ==
    LET c == auto_convert(e.quantity, e.unit)
    IN  [name |-> e.name, qty |-> e.quantity, unit |-> e.unit,
         approx |-> c.unit # e.unit, converted_qty |-> c.qty, bigger_unit |-> c.unit]

\* the zero test written as current_quantity >= 0
IsZeroStock_NonNegative(current_quantity) == FGe(current_quantity, Zero)

\* current_quantity == 0
IsZeroStock(current_quantity) == FEq(current_quantity, Zero)

\* re-basing that stores the quantity and keeps the old unit
Rebase_KeepUnit(inv, name, quantity, unit) == SetQuantity(inv, name, quantity)

\* inventory[name] = {'unit': unit, 'quantity': quantity} on a zero-stock entry
Rebase(inv, name, quantity, unit) == DictSet(inv, name, quantity, unit)

\* += quantity: the amount as typed, not converted to the entry's unit
Merge_Unconverted(inv, name, quantity, converted_quantity) ==
    SetQuantity(inv, name, FAdd(Get(inv, name).quantity, quantity))

\* inventory[name]['quantity'] += converted_quantity
Merge(inv, name, quantity, converted_quantity) ==
    SetQuantity(inv, name, FAdd(Get(inv, name).quantity, converted_quantity))

\* a new entry stored in base units (grams, millilitres) under the typed unit
Create_InBase(inv, name, quantity, unit) ==
    DictSet(inv, name,
            FMul(quantity, CONVERSION_FACTORS[get_unit_type(unit)][unit]), unit)

\* inventory[name] = {'quantity': quantity, 'unit': unit} for a new name
Create(inv, name, quantity, unit) == DictSet(inv, name, quantity, unit)

\* the stock test written with >=
Insufficient_OrEqual(converted_quantity, current_quantity) ==
    FGe(converted_quantity, current_quantity)

\* converted_quantity > current_data['quantity']
Insufficient(converted_quantity, current_quantity) ==
    FGt(converted_quantity, current_quantity)

\* inventory[name]['quantity'] -= converted_quantity
Subtract(inv, name, converted_quantity) ==
    SetQuantity(inv, name, FSub(Get(inv, name).quantity, converted_quantity))

add_ingredient(rawname, rawunit, lines) ==
    LET name == Normalize(rawname)
        unit == Normalize(rawunit)
        quantity == get_validated_positive_float(lines)
    IN  IF name = ""
        THEN /\ inventory' = inventory
             /\ last' = Outcome("add", name, None, NoneFloat, NoEntry,
                                "EmptyName", <<>>)
        ELSE IF unit \notin get_all_units
        THEN /\ inventory' = inventory
             /\ last' = Outcome("add", name, unit, NoneFloat, NoEntry,
                                "UnknownUnit", <<>>)
        ELSE IF Has(inventory, name)
        THEN LET current_unit == Get(inventory, name).unit
                 current_quantity == Get(inventory, name).quantity
                 prev == Read(inventory, name)
             IN  IF IsZeroStock(current_quantity)
                 THEN /\ inventory' = Rebase(inventory, name, quantity, unit)
                      /\ last' = Outcome("add", name, unit, quantity, prev,
                                         "updated", <<>>)
                 ELSE LET converted_quantity ==
                              convert_unit(quantity, unit, current_unit)
                      IN  IF converted_quantity = NoneFloat
                          THEN /\ inventory' = inventory
                               /\ last' = Outcome("add", name, unit, quantity, prev,
                                                  "IncompatibleUnits", <<>>)
                          ELSE /\ inventory' =
                                      Merge(inventory, name, quantity,
                                            converted_quantity)
                               /\ last' = Outcome("add", name, unit, quantity, prev,
                                                  "added", <<>>)
        ELSE /\ inventory' = Create(inventory, name, quantity, unit)
             /\ last' = Outcome("add", name, unit, quantity, NoEntry,
                                "created", <<>>)

consume_ingredient(rawname, rawunit, lines) ==
    LET name == Normalize(rawname)
        consumption_unit == Normalize(rawunit)
        consumption_quantity == get_validated_positive_float(lines)
    IN  IF ~Has(inventory, name)
        THEN /\ inventory' = inventory
             /\ last' = Outcome("consume", name, None, NoneFloat, NoEntry,
                                "NotFound", <<>>)
        ELSE IF consumption_unit \notin get_all_units
        THEN /\ inventory' = inventory
             /\ last' = Outcome("consume", name, consumption_unit, NoneFloat,
                                NoEntry, "UnknownUnit", <<>>)
        ELSE LET current_data == Read(inventory, name)
                 converted_quantity ==
                     convert_unit(consumption_quantity, consumption_unit,
                                  current_data.unit)
             IN  IF converted_quantity = NoneFloat
                 THEN /\ inventory' = inventory
                      /\ last' = Outcome("consume", name, consumption_unit,
                                         consumption_quantity, current_data,
                                         "IncompatibleUnits", <<>>)
                 ELSE IF Insufficient(converted_quantity, current_data.quantity)
                 THEN /\ inventory' = inventory
                      /\ last' = Outcome("consume", name, consumption_unit,
                                         consumption_quantity, current_data,
                                         "InsufficientStock", <<>>)
                 ELSE /\ inventory' = Subtract(inventory, name, converted_quantity)
                      /\ last' = Outcome("consume", name, consumption_unit,
                                         consumption_quantity, current_data,
                                         "consumed", <<>>)

\* a lookup written with inventory.setdefault: an unknown name gets an entry
search_ingredient_SetDefault(rawname) ==
    LET name == Normalize(rawname)
    IN  /\ inventory' = IF Has(inventory, name) THEN inventory
                        ELSE DictSet(inventory, name, Zero, "g")
        /\ last' = Outcome("search", name, None, NoneFloat, NoEntry,
                           IF Has(inventory, name) THEN "found" ELSE "NotFound",
                           <<>>)

\* one pass of the search loop
search_ingredient(rawname) ==
    LET name == Normalize(rawname)
    IN  /\ inventory' = inventory
        /\ IF Has(inventory, name)
           THEN last' = Outcome("search", name, None, NoneFloat,
                                Read(inventory, name), "found",
                                <<Display(Get(inventory, name))>>)
           ELSE last' = Outcome("search", name, None, NoneFloat, NoEntry,
                                "NotFound", <<>>)

\* a view that writes the scaled pair back into the entry it displays
view_inventory_StoresScaled ==
    /\ inventory' =
           [i \in 1..Len(inventory) |->
               [name |-> inventory[i].name,
                quantity |-> Display(inventory[i]).converted_qty,
                unit |-> Display(inventory[i]).bigger_unit]]
    /\ last' = Outcome("view", None, None, NoneFloat, NoEntry, "listed",
                       [i \in 1..Len(inventory) |-> Display(inventory[i])])

view_inventory ==
    /\ inventory' = inventory
    /\ IF inventory = <<>>
          \/ \A i \in 1..Len(inventory) : FEq(inventory[i].quantity, Zero)
       THEN last' = Outcome("view", None, None, NoneFloat, NoEntry, "empty", <<>>)
       ELSE last' = Outcome("view", None, None, NoneFloat, NoEntry, "listed",
                            [i \in 1..Len(inventory) |-> Display(inventory[i])])

----------------------------------------------------------------------------
(* The session: main_menu dispatches one handler per choice *)

\* History: per name, the base-unit amounts (grams, millilitres) of the
\* successful adds and of the successful consumes since the entry was created
\* or last re-based. Written by no handler and read by none.
NoAccounts == [n \in {} |-> [added |-> Zero, consumed |-> Zero]]

BaseAmount(qty, unit) ==
    FMul(qty, CONVERSION_FACTORS[get_unit_type(unit)][unit])

Booked(book, outcome) ==
    LET amount == BaseAmount(outcome.qty, outcome.unit)
    IN  IF outcome.result \in {"created", "updated"}
        THEN [n \in DOMAIN book \cup {outcome.name} |->
                 IF n = outcome.name THEN [added |-> amount, consumed |-> Zero]
                 ELSE book[n]]
        ELSE IF outcome.result = "added"
        THEN [book EXCEPT ![outcome.name].added = FAdd(@, amount)]
        ELSE IF outcome.result = "consumed"
        THEN [book EXCEPT ![outcome.name].consumed = FAdd(@, amount)]
        ELSE book

NoInput == [q |-> NoneFloat, u |-> None, v |-> None]
NoOutput == [op |-> "none", res |-> None]

Init ==
    /\ inventory = <<>>
    /\ last = Outcome("start", None, None, NoneFloat, NoEntry, "none", <<>>)
    /\ steps = 0
    /\ fin = NoInput
    /\ fout = NoOutput
    /\ ledger = NoAccounts

AddIngredient ==
    /\ steps < MaxOps
    /\ \E rawname \in RawNames, uq \in UnitQtyInputs :
           add_ingredient(rawname, uq[1], uq[2])
    /\ steps' = steps + 1
    /\ ledger' = Booked(ledger, last')
    /\ UNCHANGED <<fin, fout>>

ConsumeIngredient ==
    /\ steps < MaxOps
    /\ \E rawname \in RawNames, uq \in UnitQtyInputs :
           consume_ingredient(rawname, uq[1], uq[2])
    /\ steps' = steps + 1
    /\ ledger' = Booked(ledger, last')
    /\ UNCHANGED <<fin, fout>>

SearchIngredient ==
    /\ steps < MaxOps
    /\ \E rawname \in RawNames : search_ingredient(rawname)
    /\ steps' = steps + 1
    /\ ledger' = Booked(ledger, last')
    /\ UNCHANGED <<fin, fout>>

ViewInventory ==
    /\ steps < MaxOps
    /\ view_inventory
    /\ steps' = steps + 1
    /\ ledger' = Booked(ledger, last')
    /\ UNCHANGED <<fin, fout>>

Next == AddIngredient \/ ConsumeIngredient \/ SearchIngredient \/ ViewInventory

Spec == Init /\ [][Next]_vars

----------------------------------------------------------------------------
(* Longer sessions over fewer inputs: the same handlers and menu *)

\* menu choices handled in one longer session
MaxDeepOps == 5

DeepNames == {"flour", "milk"}
DeepUnitQtyInputs ==
    {<<"g", <<F(800)>>>>, <<"KG", <<F(1)>>>>, <<"ml", <<F(250)>>>>}

AddIngredientDeep ==
    /\ steps < MaxDeepOps
    /\ \E rawname \in DeepNames, uq \in DeepUnitQtyInputs :
           add_ingredient(rawname, uq[1], uq[2])
    /\ steps' = steps + 1
    /\ ledger' = Booked(ledger, last')
    /\ UNCHANGED <<fin, fout>>

ConsumeIngredientDeep ==
    /\ steps < MaxDeepOps
    /\ \E rawname \in DeepNames, uq \in DeepUnitQtyInputs :
           consume_ingredient(rawname, uq[1], uq[2])
    /\ steps' = steps + 1
    /\ ledger' = Booked(ledger, last')
    /\ UNCHANGED <<fin, fout>>

SearchIngredientDeep ==
    /\ steps < MaxDeepOps
    /\ \E rawname \in DeepNames : search_ingredient(rawname)
    /\ steps' = steps + 1
    /\ ledger' = Booked(ledger, last')
    /\ UNCHANGED <<fin, fout>>

ViewInventoryDeep ==
    /\ steps < MaxDeepOps
    /\ view_inventory
    /\ steps' = steps + 1
    /\ ledger' = Booked(ledger, last')
    /\ UNCHANGED <<fin, fout>>

NextDeep ==
    \/ AddIngredientDeep
    \/ ConsumeIngredientDeep
    \/ SearchIngredientDeep
    \/ ViewInventoryDeep

SpecDeep == Init /\ [][NextDeep]_vars

----------------------------------------------------------------------------
(* The conversion engine on its own: auto_convert applied to an input     *)
(* (fin.v = None), or convert_unit applied to an input and then to its     *)
(* own result in the opposite direction                                    *)

ConvQtys ==
    {Zero, Rat(1, 2000), Rat(1, 2), F(1), Rat(617, 500), F(2), F(16), F(30),
     F(500), F(1000), F(1500), Inf, NaN}

ConvUnits == get_all_units \cup {"cup"}

\* the values given to convert_unit
ConvertQtys == {Zero, Rat(1, 2), F(1), F(2), F(16), Inf, NaN}

InitConv ==
    /\ inventory = <<>>
    /\ last = Outcome("start", None, None, NoneFloat, NoEntry, "none", <<>>)
    /\ steps = 0
    /\ fin \in [q : ConvQtys, u : ConvUnits, v : {None}]
                 \cup [q : ConvertQtys, u : ConvUnits, v : ConvUnits \cup {"pinch"}]
    /\ fout = NoOutput
    /\ ledger = NoAccounts

AutoConvert ==
    /\ fout.op = "none"
    /\ fin.v = None
    /\ fout' = [op |-> "auto_convert", res |-> auto_convert(fin.q, fin.u)]
    /\ UNCHANGED <<inventory, last, steps, fin, ledger>>

ConvertUnit ==
    /\ fout.op = "none"
    /\ fin.v # None
    /\ fout' = [op |-> "convert_unit", res |-> convert_unit(fin.q, fin.u, fin.v)]
    /\ UNCHANGED <<inventory, last, steps, fin, ledger>>

\* the result converted back: convert_unit(convert_unit(x, u, v), v, u)
ConvertBack ==
    /\ fout.op = "convert_unit"
    /\ fout.res # NoneFloat
    /\ fout' = [op |-> "round_trip", res |-> convert_unit(fout.res, fin.v, fin.u)]
    /\ UNCHANGED <<inventory, last, steps, fin, ledger>>

NextConv == AutoConvert \/ ConvertUnit \/ ConvertBack

SpecConv == InitConv /\ [][NextConv]_vars

----------------------------------------------------------------------------
(* Properties *)

Grams(i) == [quantity |-> F(i), unit |-> "g"]

\* the entry a handler's step is about, before and after the step
Target == last'.name
Before == Get(inventory, Target)
After == Get(inventory', Target)

\* an add whose name and unit passed validation, on an existing entry
AddOnExisting ==
    /\ last'.op = "add"
    /\ last'.unit \in get_all_units
    /\ Has(inventory, Target)

\* a consume whose unit passed validation, on an existing entry
ConsumeOnExisting ==
    /\ last'.op = "consume"
    /\ last'.unit \in get_all_units
    /\ Has(inventory, Target)

\* C1: every entry of the inventory has quantity >= 0, in every reachable state.
C1_QuantityNonNegative ==
    \A i \in 1..Len(inventory) : FGe(inventory[i].quantity, Zero)

\* C2: in every step, an entry whose unit differs after the step had quantity
\* exactly 0 before it and the step was an add on that name; consume, search
\* and view never change a unit.
C2_UnitChangesOnlyByAddAtZero ==
    [][\A i \in 1..Len(inventory) :
          LET n == inventory[i].name
          IN  (Has(inventory', n) /\ Get(inventory', n).unit # inventory[i].unit)
                  => /\ last'.op = "add"
                     /\ last'.name = n
                     /\ FEq(inventory[i].quantity, Zero)]_vars

C2_Witness ==
    /\ last.op = "add"
    /\ last.result = "updated"
    /\ last.prev.unit = "g"
    /\ last.unit = "lb"
    /\ Get(inventory, last.name).unit = "lb"

\* C3: a consume with a catalog unit on an existing entry fails with
\* IncompatibleUnits when the unit does not convert to the entry's unit, fails
\* with InsufficientStock when the converted amount is strictly greater than
\* the stock, the entry being unchanged in both cases, and otherwise subtracts
\* the converted amount and keeps the unit (800 g on hand: consuming 1 kg
\* fails and 800 g remain). A consume with a unit outside the catalog is
\* rejected and changes nothing.
C3_ConsumeOutcome ==
    [][/\ ConsumeOnExisting =>
            LET c == convert_unit(last'.qty, last'.unit, Before.unit)
            IN  /\ Has(inventory', Target)
                /\ c = NoneFloat
                     => last'.result = "IncompatibleUnits" /\ After = Before
                /\ (c # NoneFloat /\ FGt(c, Before.quantity))
                     => last'.result = "InsufficientStock" /\ After = Before
                /\ (c # NoneFloat /\ ~FGt(c, Before.quantity))
                     => /\ last'.result = "consumed"
                        /\ After.quantity = FSub(Before.quantity, c)
                        /\ After.unit = Before.unit
                /\ (Read(inventory, Target) = Grams(800)
                      /\ last'.unit = "kg" /\ last'.qty = F(1))
                     => /\ last'.result = "InsufficientStock"
                        /\ Read(inventory', Target) = Grams(800)
       /\ (last'.op = "consume" /\ last'.result = "UnknownUnit")
            => inventory' = inventory]_vars

C3_Witness ==
    /\ last.op = "consume"
    /\ last.result = "InsufficientStock"
    /\ last.prev = Grams(800)
    /\ last.unit = "kg"
    /\ last.qty = F(1)
    /\ Read(inventory, last.name) = Grams(800)

\* C4: an add on an entry with quantity > 0 whose unit is of another category
\* than the given unit fails with IncompatibleUnits and leaves the whole
\* inventory unchanged.
C4_AddIncompatibleChangesNothing ==
    [][(/\ AddOnExisting
        /\ FGt(Before.quantity, Zero)
        /\ get_unit_type(last'.unit) # get_unit_type(Before.unit))
          => /\ last'.result = "IncompatibleUnits"
             /\ inventory' = inventory]_vars

C4_Witness ==
    /\ last.op = "add"
    /\ last.result = "IncompatibleUnits"
    /\ FGt(last.prev.quantity, Zero)
    /\ get_unit_type(last.unit) # get_unit_type(last.prev.unit)
    /\ Len(inventory) = 2

\* C5: an add on an entry with quantity > 0 and a unit of the same category
\* sets the quantity to old + convert(q, unit, existing unit) and keeps the
\* existing unit: 800 g plus 1 kg is 1800 g, 500 g plus 300 g is 800 g.
C5_AddMergesConverted ==
    [][(/\ AddOnExisting
        /\ FGt(Before.quantity, Zero)
        /\ get_unit_type(last'.unit) = get_unit_type(Before.unit))
          => /\ last'.result = "added"
             /\ After.quantity =
                    FAdd(Before.quantity,
                         convert_unit(last'.qty, last'.unit, Before.unit))
             /\ After.unit = Before.unit
             /\ (Read(inventory, Target) = Grams(800)
                   /\ last'.unit = "kg" /\ last'.qty = F(1))
                  => Read(inventory', Target) = Grams(1800)
             /\ (Read(inventory, Target) = Grams(500)
                   /\ last'.unit = "g" /\ last'.qty = F(300))
                  => Read(inventory', Target) = Grams(800)]_vars

C5_Witness ==
    /\ last.op = "add"
    /\ last.result = "added"
    /\ last.prev = Grams(800)
    /\ last.unit = "kg"
    /\ last.qty = F(1)
    /\ Read(inventory, last.name) = Grams(1800)

\* C6: an add with a catalog unit on an entry whose quantity is exactly 0
\* succeeds whatever the unit's category and sets the entry to exactly the
\* given quantity and unit, with no conversion.
C6_AddOnZeroRebases ==
    [][(AddOnExisting /\ FEq(Before.quantity, Zero))
          => /\ last'.result = "updated"
             /\ Has(inventory', Target)
             /\ After.quantity = last'.qty
             /\ After.unit = last'.unit]_vars

C6_Witness ==
    /\ last.op = "add"
    /\ last.result = "updated"
    /\ last.prev = Grams(0)
    /\ last.unit = "ml"
    /\ Read(inventory, last.name) = [quantity |-> F(250), unit |-> "ml"]

\* C7: an add with a non-empty name not in the inventory and a catalog unit
\* appends an entry with the given quantity (> 0) and unit.
C7_AddCreates ==
    [][(/\ last'.op = "add"
        /\ Target # ""
        /\ last'.unit \in get_all_units
        /\ ~Has(inventory, Target))
          => /\ last'.result = "created"
             /\ Has(inventory', Target)
             /\ After.quantity = last'.qty
             /\ After.unit = last'.unit
             /\ FGt(After.quantity, Zero)
             /\ Len(inventory') = Len(inventory) + 1]_vars

C7_Witness ==
    /\ last.op = "add"
    /\ last.result = "created"
    /\ last.unit = "kg"
    /\ Read(inventory, last.name) = [quantity |-> F(1), unit |-> "kg"]

\* C8 (as claimed): auto_convert(1500, "g") is (1.5, "kg") and
\* auto_convert(500, "g") is (500, "g").
C8_AsClaimed ==
    (fout.op = "auto_convert" /\ fin.u = "g")
        => /\ fin.q = F(1500) => fout.res = [qty |-> Rat(3, 2), unit |-> "kg"]
           /\ fin.q = F(500) => fout.res = [qty |-> F(500), unit |-> "g"]

\* C8 (amended): auto_convert(1500, "g") is (1.5, "kg") and
\* auto_convert(500, "g") is (1.1, "lb"): lb, factor 453.592, is the largest
\* unit whose factor is <= 500.
C8_AutoConvertExamples ==
    (fout.op = "auto_convert" /\ fin.u = "g")
        => /\ fin.q = F(1500) => fout.res = [qty |-> Rat(3, 2), unit |-> "kg"]
           /\ fin.q = F(500) => fout.res = [qty |-> Rat(11, 10), unit |-> "lb"]

C8_Witness ==
    /\ fout.op = "auto_convert"
    /\ fin.u = "g"
    /\ fin.q = F(500)
    /\ fout.res.unit = "lb"

\* auto_scale as the claim states it: the scan compares the quantity
\* expressed in base units, and divides that
AutoScaleByBase(quantity, unit) ==
    LET cat == get_unit_type(unit)
        base == FMul(quantity, CONVERSION_FACTORS[cat][unit])
        fits == {w \in DOMAIN CONVERSION_FACTORS[cat] :
                    FGe(base, CONVERSION_FACTORS[cat][w])}
    IN  IF fits = {} THEN [qty |-> quantity, unit |-> unit]
        ELSE LET w == CHOOSE x \in fits : \A y \in fits :
                          FGe(CONVERSION_FACTORS[cat][x], CONVERSION_FACTORS[cat][y])
             IN  [qty |-> Round2(FDiv(base, CONVERSION_FACTORS[cat][w])),
                  unit |-> w]

\* C9: for every catalog unit u and finite quantity q, auto_convert(q, u) is
\* the largest-factor unit w of u's category with factor(w) <= q * factor(u),
\* with q * factor(u) / factor(w) rounded to 2 decimals.
C9_AutoConvertScalesBaseQuantity ==
    (fout.op = "auto_convert" /\ fin.u \in get_all_units /\ fin.q.k = "fin")
        => fout.res = AutoScaleByBase(fin.q, fin.u)

\* C10: no step removes a name from the inventory, and a consume whose
\* converted amount equals the stored quantity succeeds, leaves quantity
\* exactly 0 and keeps the entry.
C10_EntriesPersistExactConsumeLeavesZero ==
    [][/\ Names(inventory) \subseteq Names(inventory')
       /\ (/\ ConsumeOnExisting
           /\ FEq(convert_unit(last'.qty, last'.unit, Before.unit),
                  Before.quantity))
            => /\ last'.result = "consumed"
               /\ Has(inventory', Target)
               /\ FEq(After.quantity, Zero)]_vars

\* C11: a consume or a search on a name that is not in the inventory (never
\* successfully added) ends NotFound, creates no entry and leaves the
\* inventory unchanged.
C11_UnknownNameNotFound ==
    [][(last'.op \in {"consume", "search"} /\ ~Has(inventory, Target))
          => /\ last'.result = "NotFound"
             /\ ~Has(inventory', Target)
             /\ inventory' = inventory]_vars

C11_Witness ==
    /\ last.op \in {"consume", "search"}
    /\ last.result = "NotFound"
    /\ last.name = "milk"
    /\ Names(inventory) = {"flour"}

\* the catalog read directly: membership, common category, factor
Known(u) == \E cat \in {"mass", "volume"} : u \in DOMAIN CONVERSION_FACTORS[cat]
SameCategory(u, v) ==
    \E cat \in {"mass", "volume"} :
        u \in DOMAIN CONVERSION_FACTORS[cat] /\ v \in DOMAIN CONVERSION_FACTORS[cat]
FactorOf(u) ==
    IF u \in DOMAIN CONVERSION_FACTORS.mass THEN CONVERSION_FACTORS.mass[u]
    ELSE CONVERSION_FACTORS.volume[u]

\* C12: convert_unit(x, u, v) is the sentinel None whenever u or v is not in
\* the catalog (both unknown included) or they are of different categories,
\* and x * factor(u) / factor(v) otherwise (2 kg = 2000 g, 16 oz = 1 lb,
\* 1 l = 1000 ml).
C12_ConvertSentinelOrRatio ==
    fout.op = "convert_unit"
        => /\ IF ~Known(fin.u) \/ ~Known(fin.v) \/ ~SameCategory(fin.u, fin.v)
              THEN fout.res = NoneFloat
              ELSE fout.res = FDiv(FMul(fin.q, FactorOf(fin.u)), FactorOf(fin.v))
           /\ (fin.q = F(2) /\ fin.u = "kg" /\ fin.v = "g") => fout.res = F(2000)
           /\ (fin.q = F(16) /\ fin.u = "oz" /\ fin.v = "lb") => fout.res = F(1)
           /\ (fin.q = F(1) /\ fin.u = "l" /\ fin.v = "ml") => fout.res = F(1000)

C12_Witness ==
    /\ fout.op = "convert_unit"
    /\ fin.u = "cup"
    /\ fin.v = "pinch"
    /\ fout.res = NoneFloat

C14_InvalidInputChangesNothing ==
    [][/\ (/\ last'.op \in {"add", "consume"}
           /\ \/ last'.name = ""
              \/ last'.unit \notin get_all_units
              \/ ~FGt(last'.qty, Zero))
            => inventory' = inventory
       /\ \A i \in 1..Len(inventory') :
              /\ inventory'[i].name # ""
              /\ inventory'[i].unit \in get_all_units]_vars

C14_Witness ==
    /\ last.op = "consume"
    /\ last.result = "UnknownUnit"
    /\ last.unit = "cup"
    /\ Has(inventory, last.name)

\* C15: auto_convert(q, u) is the pair (q, u) itself, not rounded, when u is
\* not a catalog unit or when no unit of u's category has a factor <= q
\* (q = 0, or q below the smallest factor).
C15_AutoConvertFallbackUnchanged ==
    (/\ fout.op = "auto_convert"
     /\ \/ ~Known(fin.u)
        \/ \A w \in get_all_units :
               SameCategory(w, fin.u) => ~FGe(fin.q, FactorOf(w)))
        => fout.res = [qty |-> fin.q, unit |-> fin.u]

C15_Witness ==
    /\ fout.op = "auto_convert"
    /\ fin.u = "kg"
    /\ fin.q = Rat(1, 2000)
    /\ fout.res = [qty |-> Rat(1, 2000), unit |-> "kg"]

\* C16: a search or a view leaves the inventory (every entry's name, quantity
\* and unit, the set and the order of the entries) as it was, also when
\* auto_convert reports another display unit.
C16_ReadOnlyOperations ==
    [][last'.op \in {"search", "view"} => inventory' = inventory]_vars

C16_Witness ==
    /\ last.op = "search"
    /\ last.result = "found"
    /\ last.out[1].approx
    /\ last.out[1].bigger_unit = "lb"
    /\ Read(inventory, last.name) = Grams(800)

NameOrder(inv) == [i \in 1..Len(inv) |-> inv[i].name]
IsPrefix(a, b) == Len(a) <= Len(b) /\ \A i \in 1..Len(a) : a[i] = b[i]
Listed(outcome) == [i \in 1..Len(outcome.out) |-> outcome.out[i].name]
AllZero(inv) == \A i \in 1..Len(inv) : FEq(inv[i].quantity, Zero)

\* C17 (as claimed): no step changes the position of an entry (names are
\* appended in the order of their first successful add), and every view
\* enumerates all entries in that order, zero-quantity entries included.
C17_AsClaimed ==
    [][/\ IsPrefix(NameOrder(inventory), NameOrder(inventory'))
       /\ last'.op = "view" => Listed(last') = NameOrder(inventory')]_vars

\* C17 (amended): no step changes the position of an entry, and a view
\* enumerates all entries in that order, zero-quantity entries included,
\* unless every entry has quantity 0 (or there is none): then it prints that
\* the inventory is empty and enumerates nothing.
C17_ViewInInsertionOrder ==
    [][/\ IsPrefix(NameOrder(inventory), NameOrder(inventory'))
       /\ last'.op = "view" =>
            IF AllZero(inventory')
            THEN last'.result = "empty" /\ Listed(last') = <<>>
            ELSE last'.result = "listed" /\ Listed(last') = NameOrder(inventory')]_vars

C17_Witness ==
    /\ last.op = "view"
    /\ last.result = "listed"
    /\ NameOrder(inventory) = <<"milk", "flour">>
    /\ Listed(last) = <<"milk", "flour">>
    /\ inventory[1].quantity = Zero

Conserved(compare(_, _)) ==
    \A i \in 1..Len(inventory) :
        LET e == inventory[i]
        IN  /\ e.name \in DOMAIN ledger
            /\ compare(BaseAmount(e.quantity, e.unit),
                       FSub(ledger[e.name].added, ledger[e.name].consumed))

\* C18: for every entry, the quantity expressed in base units equals (Python
\* ==) the base-unit amounts of the successful adds minus those of the
\* successful consumes on its name since it was created or last re-based.
C18_Conservation == Conserved(FEq)

\* C19: an add or a consume on name n, successful or not, leaves every entry
\* of another name as it was and neither creates nor removes such an entry.
C19_OtherEntriesUntouched ==
    [][last'.op \in {"add", "consume"} =>
         \A m \in (Names(inventory) \cup Names(inventory')) \ {Target} :
            /\ Has(inventory, m) /\ Has(inventory', m)
            /\ Get(inventory', m) = Get(inventory, m)]_vars

C19_Witness ==
    /\ last.op = "consume"
    /\ last.result = "consumed"
    /\ Len(inventory) = 2
    /\ \E i \in 1..2 : inventory[i].name # last.name /\ inventory[i].quantity # Zero

====
